---- MODULE Spec2Model ----
(***************************************************************************)
(* Model of topaz/src/global/location.rs: the wrapper `Location` around    *)
(* the browser's window.location.  A Rust `String` is a sequence of        *)
(* one-character strings.  A MultiMap<String, String> is a function from   *)
(* the keys it holds to the non-empty sequence of values inserted under    *)
(* each key, in insertion order.                                           *)
(***************************************************************************)
EXTENDS Naturals, Sequences, FiniteSets

VARIABLES
    host,    \* the live web_sys::Location: href, protocol, pathname, search, hash
    loc,     \* the Location wrapper: [original, modifiable], NoLocation when none
    pc,      \* "idle", "live", "released", "failed" (global() panicked), "aborted" (drop panicked)
    trace,   \* what the last drop() did, in order: println! notices and host setter calls
    edits    \* number of writes made through deref_mut in the current session

vars == <<host, loc, pc, trace, edits>>

\* ---------------------------------------------------------------- bounds
MaxEdits == 3
MaxSearchLen == 6
MaxHashLen == 3

\* ---------------------------------------------------------------- strings
Str(n, A) == UNION {[1..k -> A] : k \in 0..n}

DropFirst(s) == SubSeq(s, 2, Len(s))

\* the characters of https://a.test/ as a String
Origin == <<"h","t","t","p","s",":","/","/","a",".","t","e","s","t","/">>
HttpOrigin == <<"h","t","t","p",":","/","/","a",".","t","e","s","t","/">>
Https == <<"h","t","t","p","s",":">>
Http == <<"h","t","t","p",":">>

\* ---------------------------------------------------------------- MultiMap
MultiMap_new == [k \in {} |-> <<>>]

insert(m, k, v) ==
    IF k \in DOMAIN m
    THEN [m EXCEPT ![k] = Append(@, v)]
    ELSE [x \in (DOMAIN m) \cup {k} |-> IF x = k THEN <<v>> ELSE m[x]]

\* ---------------------------------------------------------------- from_web
\* index of the first c in s, 0 when there is none (left-to-right scan)
RECURSIVE find_from(_, _, _)
find_from(s, c, i) ==
    IF i > Len(s) THEN 0
    ELSE IF s[i] = c THEN i
    ELSE find_from(s, c, i + 1)

\* str::split(c): the pieces between the separators, empty pieces included
RECURSIVE split(_, _)
split(s, c) ==
    LET i == find_from(s, c, 1)
    IN  IF i = 0 THEN <<s>>
        ELSE <<SubSeq(s, 1, i - 1)>> \o split(SubSeq(s, i + 1, Len(s)), c)

\* str::splitn(2, c): at most two pieces, cut at the first separator
splitn2(s, c) ==
    LET i == find_from(s, c, 1)
    IN  IF i = 0 THEN <<s>>
        ELSE <<SubSeq(s, 1, i - 1), SubSeq(s, i + 1, Len(s))>>

keep_all(pieces) == pieces

\* .filter(|s| !s.is_empty())
non_empty(pieces) ==
    LET NotEmpty(p) == Len(p) > 0
    IN  SelectSeq(pieces, NotEmpty)

\* the body of the for loop: one pair inserted into the map
insert_pair(query, pair) ==
    LET kv    == splitn2(pair, "=")
        key   == kv[1]
        value == IF Len(kv) >= 2 THEN kv[2] ELSE <<>>
    IN  insert(query, key, value)

RECURSIVE insert_pairs(_, _)
insert_pairs(query, pairs) ==
    IF pairs = <<>> THEN query
    ELSE insert_pairs(insert_pair(query, Head(pairs)), Tail(pairs))

parse_query(search) ==
    IF Len(search) > 0
    THEN insert_pairs(MultiMap_new, non_empty(split(DropFirst(search), "&")))
    ELSE MultiMap_new

anchor_keep(hash) == hash

\* let anchor = { let mut hash = hash.clone(); if hash.len() > 0 { hash.remove(0); } hash }
anchor_of(hash) ==
    IF Len(hash) > 0 THEN DropFirst(hash) ELSE hash

from_web_path_only(h) ==
    [ href     |-> h.href,
      scheme   |-> h.protocol,
      pathname |-> h.pathname,
      anchor   |-> anchor_of(h.hash),
      path     |-> h.pathname,
      protocol |-> h.pathname,
      search   |-> h.search,
      hash     |-> h.hash,
      query    |-> parse_query(h.search) ]

from_web(h) ==
    [ href     |-> h.href,
      scheme   |-> h.protocol,
      pathname |-> h.pathname,
      anchor   |-> anchor_of(h.hash),
      path     |-> h.pathname,
      protocol |-> h.protocol,
      search   |-> h.search,
      hash     |-> h.hash,
      query    |-> parse_query(h.search) ]

\* ---------------------------------------------------------------- Location
NoLocation == <<>>

global(h) ==
    LET original == from_web(h)
    IN  [ modifiable |-> original, original |-> original ]

deref == "original"

deref_mut_original == "original"

deref_mut == "modifiable"

\* ---------------------------------------------------------------- host object
\* web_sys::Location::set_href / set_hash: the host keeps the value handed to it
set_href(h, v) == [h EXCEPT !.href = v]

set_hash(h, v) == [h EXCEPT !.hash = v]

\* ---------------------------------------------------------------- drop
\* println!(fmt, a, b)
println(fmt, a, b) == [kind |-> "println", fmt |-> fmt, args |-> <<a, b>>, ok |-> TRUE]

\* one call of a host setter and whether it returned Ok
called(setter, v, err) == [kind |-> setter, fmt |-> "", args |-> <<v>>, ok |-> ~err]

unwrap_ignored(s, err) == s

\* Result::unwrap(): an Err panics, and nothing after it in drop() runs
unwrap(s, err) == [s EXCEPT !.panicked = err]

drop_href_always(l, s, err) ==
    IF ~s.panicked
    THEN unwrap([ host  |-> IF err THEN s.host ELSE set_href(s.host, l.modifiable.href),
                  trace |-> s.trace \o
                            << println("Href changed from {} to {}",
                                       l.original.href, l.modifiable.href),
                               called("set_href", l.modifiable.href, err) >>,
                  panicked |-> FALSE ], err)
    ELSE s

drop_href_stale(l, s, err) ==
    IF ~s.panicked /\ l.modifiable.href # l.original.href
    THEN unwrap([ host  |-> IF err THEN s.host ELSE set_href(s.host, l.original.href),
                  trace |-> s.trace \o
                            << println("Href changed from {} to {}",
                                       l.original.href, l.modifiable.href),
                               called("set_href", l.original.href, err) >>,
                  panicked |-> FALSE ], err)
    ELSE s

drop_href_dirty(l, s, err) ==
    IF ~s.panicked /\ l.modifiable # l.original
    THEN unwrap([ host  |-> IF err THEN s.host ELSE set_href(s.host, l.modifiable.href),
                  trace |-> s.trace \o
                            << println("Href changed from {} to {}",
                                       l.original.href, l.modifiable.href),
                               called("set_href", l.modifiable.href, err) >>,
                  panicked |-> FALSE ], err)
    ELSE s

\* lines 116-119
drop_href(l, s, err) ==
    IF ~s.panicked /\ l.modifiable.href # l.original.href
    THEN unwrap([ host  |-> IF err THEN s.host ELSE set_href(s.host, l.modifiable.href),
                  trace |-> s.trace \o
                            << println("Href changed from {} to {}",
                                       l.original.href, l.modifiable.href),
                               called("set_href", l.modifiable.href, err) >>,
                  panicked |-> FALSE ], err)
    ELSE s

\* lines 120-123
drop_hash(l, s, err) ==
    IF ~s.panicked /\ l.modifiable.hash # l.original.hash
    THEN unwrap([ host  |-> IF err THEN s.host ELSE set_hash(s.host, l.modifiable.hash),
                  trace |-> s.trace \o
                            << println("Hash changed from {} to {}",
                                       l.original.hash, l.modifiable.hash),
                               called("set_hash", l.modifiable.hash, err) >>,
                  panicked |-> FALSE ], err)
    ELSE s

\* lines 124-127
drop_anchor(l, s, err) ==
    IF ~s.panicked /\ l.modifiable.anchor # l.original.anchor
    THEN unwrap([ host  |-> IF err THEN s.host ELSE set_hash(s.host, l.modifiable.anchor),
                  trace |-> s.trace \o
                            << println("Hash changed from {} to {}",
                                       l.original.anchor, l.modifiable.anchor),
                               called("set_hash", l.modifiable.anchor, err) >>,
                  panicked |-> FALSE ], err)
    ELSE s

drop_anchor_first(l, h, errs) ==
    drop_hash(l,
        drop_anchor(l,
            drop_href(l, [host |-> h, trace |-> <<>>, panicked |-> FALSE], errs[1]),
            errs[3]),
        errs[2])

\* Drop for Location: errs[i] says whether the i-th setter call, if made, returns Err
drop(l, h, errs) ==
    drop_anchor(l,
        drop_hash(l,
            drop_href(l, [host |-> h, trace |-> <<>>, panicked |-> FALSE], errs[1]),
            errs[2]),
        errs[3])

\* ---------------------------------------------------------------- inputs
HostLocations ==
    { [ href     |-> Origin \o <<"x">>,
        protocol |-> Https,
        pathname |-> <<"/", "x">>,
        search   |-> <<>>,
        hash     |-> <<>> ],
      [ href     |-> Origin \o <<"x", "?", "a", "=", "b", "#", "a">>,
        protocol |-> Https,
        pathname |-> <<"/", "x">>,
        search   |-> <<"?", "a", "=", "b">>,
        hash     |-> <<"#", "a">> ],
      [ href     |-> HttpOrigin \o <<"y", "#", "b">>,
        protocol |-> Http,
        pathname |-> <<"/", "y">>,
        search   |-> <<>>,
        hash     |-> <<"#", "b">> ] }

SearchChars == {"?", "&", "=", "a", "b"}
HashChars == {"#", "a"}

\* host locations covering every search string and every hash string of the bounds
ParseLocations ==
    { [ href     |-> Origin,
        protocol |-> Https,
        pathname |-> <<"/">>,
        search   |-> q,
        hash     |-> <<>> ] : q \in Str(MaxSearchLen, SearchChars) }
    \cup
    { [ href     |-> Origin,
        protocol |-> Https,
        pathname |-> <<"/">>,
        search   |-> <<>>,
        hash     |-> f ] : f \in Str(MaxHashLen, HashChars) }

Fields == {"href", "pathname", "path", "protocol", "scheme", "search", "hash", "anchor", "query"}

\* the values a caller assigns to a field of the working copy
EditValues(f) ==
    CASE f = "href"     -> {Origin \o <<"x">>, Origin \o <<"y">>}
      [] f = "pathname" -> {<<"/", "z">>}
      [] f = "path"     -> {<<"/", "z">>}
      [] f = "protocol" -> {Http}
      [] f = "scheme"   -> {Http}
      [] f = "search"   -> {<<"?", "b">>}
      [] f = "hash"     -> {<<"#", "b">>, <<>>}
      [] f = "anchor"   -> {<<"b">>, <<"c">>}
      [] f = "query"    -> {<<"v">>}

\* ---------------------------------------------------------------- actions
Init ==
    /\ host \in HostLocations
    /\ loc = NoLocation
    /\ pc = "idle"
    /\ trace = <<>>
    /\ edits = 0

\* location() / Location::global(): the window's location is h when it runs;
\* ok = FALSE is one of the unwrap()s of global() or from_web() panicking
Construct(H) ==
    /\ pc \in {"idle", "released"}
    /\ \E h \in H, ok \in BOOLEAN :
          /\ host' = h
          /\ loc' = IF ok THEN global(h) ELSE NoLocation
          /\ pc' = IF ok THEN "live" ELSE "failed"
    /\ trace' = <<>>
    /\ edits' = 0

\* a write through DerefMut: location.f = v, or location.query.insert(k, v)
Mutate ==
    /\ pc = "live"
    /\ edits < MaxEdits
    /\ \E f \in Fields :
          \E v \in EditValues(f) :
             LET target == loc[deref_mut]
                 new    == IF f = "query" THEN insert(target.query, <<"k">>, v) ELSE v
             IN  loc' = [loc EXCEPT ![deref_mut] = [target EXCEPT ![f] = new]]
    /\ edits' = edits + 1
    /\ UNCHANGED <<host, pc, trace>>

\* the wrapper goes out of scope: drop() runs to its end or to its first panic.
\* loc keeps the two records as drop() saw them.
Release ==
    /\ pc = "live"
    /\ \E errs \in [1..3 -> BOOLEAN] :
          LET r == drop(loc, host, errs)
          IN  /\ host' = r.host
              /\ trace' = r.trace
              /\ pc' = IF r.panicked THEN "aborted" ELSE "released"
    /\ UNCHANGED <<loc, edits>>

Session == Construct(HostLocations)

Next == Session \/ Mutate \/ Release

Spec == Init /\ [][Next]_vars

Parse == Construct(ParseLocations)

NextParse == Parse

SpecParse == Init /\ [][NextParse]_vars

\* ---------------------------------------------------------------- properties
\* drop() has run, to its end or to a panic
Dropped == pc \in {"released", "aborted"}

IsSetter(e) == e.kind # "println"

SetterCalls == SelectSeq(trace, IsSetter)

CallsOf(setter) ==
    LET Is(e) == e.kind = setter
    IN  SelectSeq(trace, Is)

Changed(f) == loc.modifiable[f] # loc.original[f]

\* C1: a session with no write through the working copy ends with no call of
\* set_href or set_hash.
C1_NoOpCommit ==
    (Dropped /\ edits = 0) => SetterCalls = <<>>

C1_Witness ==
    pc = "released" /\ edits = 0 /\ trace = <<>>

\* C2: after drop(), set_href was called exactly once, with the working copy's
\* final href, when that href differs from the original one, and was not called
\* at all when the two are equal.
C2_CommitHref ==
    Dropped =>
        IF Changed("href")
        THEN /\ Len(CallsOf("set_href")) = 1
             /\ CallsOf("set_href")[1].args = <<loc.modifiable.href>>
        ELSE CallsOf("set_href") = <<>>

C2_Witness ==
    /\ pc = "released"
    /\ edits >= 2
    /\ Changed("href")
    /\ Len(CallsOf("set_href")) = 1
    /\ CallsOf("set_href")[1].args = <<Origin \o <<"y">> >>

\* C3: while the session is live the read view (deref) is the snapshot taken at
\* construction, and no step of the session changes any of its fields.
C3_ReadWriteIsolation ==
    /\ [](pc = "live" => loc[deref] = from_web(host))
    /\ [][pc = "live" => loc'[deref] = loc[deref]]_vars

C3_Witness ==
    /\ pc = "live"
    /\ edits = MaxEdits
    /\ loc[deref_mut] # loc[deref]
    /\ loc[deref] = from_web(host)

\* C4: when href, hash and anchor of the working copy equal the original at
\* release, whatever was done to pathname, path, protocol, scheme, search and
\* query, drop() calls no host setter and leaves the host location as it was.
C4_SilentDiscard ==
    [][ ( /\ pc = "live"
          /\ pc' # "live"
          /\ ~Changed("href") /\ ~Changed("hash") /\ ~Changed("anchor") )
        => ( /\ host' = host
             /\ \A i \in 1..Len(trace') : ~IsSetter(trace'[i]) ) ]_vars

C4_Witness ==
    /\ pc = "released"
    /\ Changed("pathname") /\ Changed("protocol") /\ Changed("query")
    /\ ~Changed("href") /\ ~Changed("hash") /\ ~Changed("anchor")
    /\ trace = <<>>

\* the setter calls drop() makes when none fails: href, then hash, then anchor
ExpectedCalls ==
    (IF Changed("href") THEN << <<"set_href", loc.modifiable.href>> >> ELSE <<>>)
    \o (IF Changed("hash") THEN << <<"set_hash", loc.modifiable.hash>> >> ELSE <<>>)
    \o (IF Changed("anchor") THEN << <<"set_hash", loc.modifiable.anchor>> >> ELSE <<>>)

MadeCalls == [i \in 1..Len(SetterCalls) |-> <<SetterCalls[i].kind, SetterCalls[i].args[1]>>]

InOrder ==
    /\ Len(MadeCalls) <= Len(ExpectedCalls)
    /\ MadeCalls = SubSeq(ExpectedCalls, 1, Len(MadeCalls))

AnchorWins ==
    /\ CallsOf("set_hash") # <<>>
    /\ CallsOf("set_hash")[Len(CallsOf("set_hash"))].args = <<loc.modifiable.anchor>>
    /\ host.hash = loc.modifiable.anchor

Snapshots == IF pc = "live" THEN {loc.original, loc.modifiable} ELSE {}

\* C6 as stated: in every constructed snapshot hash is empty iff anchor is
\* empty, and a non-empty hash is "#" followed by anchor.
C6_Original ==
    \A d \in Snapshots :
        /\ (d.hash = <<>>) <=> (d.anchor = <<>>)
        /\ d.hash # <<>> => d.hash = <<"#">> \o d.anchor

\* C6 amended: in every constructed snapshot hash is the host's hash, anchor is
\* empty iff hash has at most one character, and a hash that begins with "#" is
\* "#" followed by anchor.
C6_Amended ==
    \A d \in Snapshots :
        /\ d.hash = host.hash
        /\ (d.anchor = <<>>) <=> (Len(d.hash) <= 1)
        /\ (d.hash # <<>> /\ Head(d.hash) = "#") => d.hash = <<"#">> \o d.anchor

C6_Witness ==
    /\ pc = "live"
    /\ loc.original.hash = <<"#", "a", "#">>
    /\ loc.original.anchor = <<"a", "#">>

\* the reference parse: the non-empty maximal runs without "&" of the search
\* string minus its first character, each cut at its first "="
ref_query(search) ==
    LET rest == DropFirst(search)
        n    == Len(rest)
        Segs == { s \in (1..n) \X (1..n) :
                    /\ s[1] <= s[2]
                    /\ \A k \in s[1]..s[2] : rest[k] # "&"
                    /\ (s[1] = 1 \/ rest[s[1] - 1] = "&")
                    /\ (s[2] = n \/ rest[s[2] + 1] = "&") }
        Eq(s)    == { k \in s[1]..s[2] : rest[k] = "=" }
        First(s) == CHOOSE k \in Eq(s) : \A m \in Eq(s) : k <= m
        KeyOf(s) == IF Eq(s) = {} THEN SubSeq(rest, s[1], s[2])
                    ELSE SubSeq(rest, s[1], First(s) - 1)
        ValOf(s) == IF Eq(s) = {} THEN <<>>
                    ELSE SubSeq(rest, First(s) + 1, s[2])
        Keys     == { KeyOf(s) : s \in Segs }
        With(k)  == { s \in Segs : KeyOf(s) = k }
        Ordered(S) == CHOOSE q \in [1..Cardinality(S) -> S] :
                         \A a, b \in 1..Cardinality(S) : a < b => q[a][1] < q[b][1]
    IN  [ k \in Keys |-> [ p \in 1..Cardinality(With(k)) |-> ValOf(Ordered(With(k))[p]) ] ]

\* C7: the query of a constructed snapshot is the reference parse of the host's
\* search string.
C7_QueryParse ==
    pc = "live" => loc.original.query = ref_query(host.search)

C7_Witness ==
    /\ pc = "live"
    /\ host.search = <<"?", "a", "=", "&", "&", "a">>
    /\ DOMAIN loc.original.query = {<<"a">>}
    /\ loc.original.query[<<"a">>] = << <<>>, <<>> >>

\* C8: in the original snapshot, and in the working copy before any edit,
\* pathname and path are the host's pathname and protocol and scheme are the
\* host's protocol.
C8_AliasInvariant ==
    pc = "live" =>
        \A d \in {loc.original} \cup (IF edits = 0 THEN {loc.modifiable} ELSE {}) :
            /\ d.pathname = d.path /\ d.path = host.pathname
            /\ d.protocol = d.scheme /\ d.scheme = host.protocol

C8_Witness ==
    /\ pc = "live"
    /\ edits = 0
    /\ loc.modifiable.path = <<"/", "y">>
    /\ loc.modifiable.scheme = Http

\* C9: a setter call that fails is the last thing drop() does: no notice and no
\* setter call follows it, and drop() panicked exactly when its last call failed.
C9_FailureAborts ==
    Dropped =>
        /\ \A i \in 1..Len(trace) : (IsSetter(trace[i]) /\ ~trace[i].ok) => i = Len(trace)
        /\ pc = "aborted" <=> (trace # <<>> /\ ~trace[Len(trace)].ok)

C9_Witness ==
    /\ pc = "aborted"
    /\ Changed("href") /\ Changed("hash") /\ Changed("anchor")
    /\ Len(trace) = 2
    /\ trace[2].kind = "set_href"
    /\ CallsOf("set_hash") = <<>>

\* the field a notice names
FieldNamed(fmt) ==
    CASE fmt = "Href changed from {} to {}"   -> "href"
      [] fmt = "Hash changed from {} to {}"   -> "hash"
      [] fmt = "Anchor changed from {} to {}" -> "anchor"
      [] OTHER -> ""

NoticesOf(f) ==
    LET Is(e) == e.kind = "println" /\ FieldNamed(e.fmt) = f
    IN  SelectSeq(trace, Is)

\* C10: after a release that ran to its end, each of href, hash and anchor that
\* changed has one notice naming it with its old and new value, every setter
\* call has a notice right before it, and a field that did not change has no
\* notice naming it.
C10_NoticeBeforeWrite ==
    /\ Dropped =>
          \A i \in 1..Len(trace) :
             IsSetter(trace[i]) =>
                /\ i > 1
                /\ trace[i - 1].kind = "println"
                /\ trace[i - 1].args[2] = trace[i].args[1]
    /\ pc = "released" =>
          \A f \in {"href", "hash", "anchor"} :
             IF Changed(f)
             THEN /\ Len(NoticesOf(f)) = 1
                  /\ NoticesOf(f)[1].args = <<loc.original[f], loc.modifiable[f]>>
             ELSE NoticesOf(f) = <<>>

====
